---- MODULE Spec2Model ----
(***************************************************************************)
(* State-machine model of track's TrackClient (src/track/client.py): one   *)
(* client, its Trial, its current Project and TrialGroup, the Storage it   *)
(* loads, and the storage files behind it.                                 *)
(*                                                                         *)
(* Python objects that the client mutates after sharing them (TrialGroup,  *)
(* the Trial) live by reference: TrialGroups in the heap `groups`, indexed *)
(* by address; the Trial in the variable `trial`.  A Project is never      *)
(* mutated once set_project has obtained it, so it is held by value.       *)
(* None is the record None; a None uid is NoUid; a None name is NoName.    *)
(***************************************************************************)
EXTENDS Integers, Sequences, FiniteSets, TLC

VARIABLES
    storage_protocol,   \* self.storage_protocol
    project,            \* self.project
    group,              \* self.group: None or [kind |-> "group", addr |-> heap address]
    trial,              \* self.trial
    data_store,         \* self.data_store
    groups,             \* heap of TrialGroup objects
    files,              \* storage location -> stored content
    nextUid,            \* next uid the Storage hands out
    loads,              \* number of load_storage calls so far
    ncalls,             \* number of client calls so far
    last,               \* the last client call: operation, arguments, outcome
    project_returned,   \* name -> the uids set_project(name=...) returned on this data_store
    group_returned      \* name -> the groups set_group(name=...) returned under this project

vars == <<storage_protocol, project, group, trial, data_store, groups, files,
          nextUid, loads, ncalls, last, project_returned, group_returned>>

\* ---------------------------------------------------------------- bounds

MaxCalls == 3

\* ---------------------------------------------------------------- values

None == [kind |-> "None"]
NoUid == 0
NoName == "None"
Names == {"a", "b"}
OptNames == Names \cup {NoName}

EmptyDict == [k \in {} |-> None]

\* dict.get(key) on the name index: the uid, or None
names_get(d, k) == IF k \in DOMAIN d THEN d[k] ELSE NoUid

\* dict.get(key) on the object table: the object, or None
objects_get(d, k) == IF k \in DOMAIN d THEN d[k] ELSE None

\* the results recorded under a name so far
returned_get(d, k) == IF k \in DOMAIN d THEN d[k] ELSE <<>>

\* d[k] = v
dict_set(d, k, v) == [x \in DOMAIN d \cup {k} |-> IF x = k THEN v ELSE d[x]]

\* Project(name=name, tags=tags, description=description)
Project(name) == [kind |-> "project", uid |-> NoUid, name |-> name, groups |-> {}]

\* TrialGroup(name=name, tags=tags, description=description)
TrialGroup(name) == [uid |-> NoUid, name |-> name, project_id |-> NoUid, trials |-> <<>>]

\* Trial()
Trial == [uid |-> NoUid, project_id |-> NoUid, group_id |-> NoUid]

\* references held in Storage.objects
GroupRef(addr) == [kind |-> "group", addr |-> addr]
TrialRef == [kind |-> "trial_ref"]

\* ---------------------------------------------------------------- storage locations

DefaultProtocol == <<"file://", "${project}", ".json">>
FixedProtocol == <<"file://", "track", ".json">>
Protocols == {DefaultProtocol, FixedProtocol}

\* store.replace('${project}', name)
replace(store, name) ==
    [i \in DOMAIN store |-> IF store[i] = "${project}" THEN name ELSE store[i]]

\* a file named outright, as a store string or as save's file_name_override
OtherFile == <<"file://", "other", ".json">>

\* the store strings a caller passes to set_store
Stores == Protocols \cup {OtherFile}

\* the locations set_store can reach from a store string
Locations(store) == {store} \cup {replace(store, n) : n \in Names}

\* every location a call can name
AllLocations == UNION {Locations(store) : store \in Stores}

\* the client itself, as returned for chaining
Self == [kind |-> "self"]

\* a file name passed as file_name_override
FileArg(loc) == [kind |-> "file", loc |-> loc]

\* ---------------------------------------------------------------- Storage

\* a storage file's content: the name index and the object table, objects by value
EmptyContent == [project_names |-> EmptyDict, objects |-> EmptyDict]

\* a file left by an earlier run: project "a" holding one group named "a"
GroupContent ==
    [project_names |-> dict_set(EmptyDict, "a", 1),
     objects |-> dict_set(dict_set(EmptyDict, 1,
                     [kind |-> "project", uid |-> 1, name |-> "a", groups |-> {2}]), 2,
                     [kind |-> "group", uid |-> 2, name |-> "a", project_id |-> 1,
                      trials |-> <<>>])]

\* a damaged file: "a" is in the name index, its object is not in the table
DanglingContent ==
    [project_names |-> dict_set(EmptyDict, "a", 1), objects |-> EmptyDict]

Contents == {EmptyContent, GroupContent, DanglingContent}

FirstFreeUid == 3

group_uids(content) ==
    {u \in DOMAIN content.objects : content.objects[u].kind = "group"}

\* the heap address load_storage gives the group stored under uid u
load_addr(content, heap, u) ==
    Len(heap) + Cardinality({v \in group_uids(content) : v <= u})

\* the TrialGroup objects load_storage builds, in uid order
loaded_groups(content) ==
    LET gs == group_uids(content)
        nth(i) == CHOOSE u \in gs : Cardinality({v \in gs : v <= u}) = i
        obj(u) == content.objects[u]
    IN [i \in 1..Cardinality(gs) |->
           [uid |-> obj(nth(i)).uid, name |-> obj(nth(i)).name,
            project_id |-> obj(nth(i)).project_id, trials |-> obj(nth(i)).trials]]

\* load_storage(store): the Storage read from the file at `loc`
load_storage(fs, heap, loc, gen) ==
    LET content == fs[loc]
    IN [data_store |->
           [kind |-> "storage", loc |-> loc, gen |-> gen,
            project_names |-> content.project_names,
            objects |-> [u \in DOMAIN content.objects |->
                            IF content.objects[u].kind = "group"
                            THEN GroupRef(load_addr(content, heap, u))
                            ELSE content.objects[u]]],
        groups |-> heap \o loaded_groups(content)]

\* Storage.insert_project(project): assign a uid, register in table and name index
insert_project(ds, p, uid) ==
    LET q == [p EXCEPT !.uid = uid]
    IN [project |-> q,
        data_store |-> [ds EXCEPT !.objects = dict_set(@, uid, q),
                                  !.project_names = dict_set(@, q.name, uid)],
        nextUid |-> uid + 1]

\* Storage.insert_trial(trial): assign a uid when the trial has none, register in table
insert_trial(ds, t, uid) ==
    LET u == IF t.uid = NoUid THEN uid ELSE t.uid
    IN [trial |-> [t EXCEPT !.uid = u],
        data_store |-> [ds EXCEPT !.objects = dict_set(@, u, TrialRef)],
        nextUid |-> IF t.uid = NoUid THEN uid + 1 ELSE uid]

\* to_json of one entry of the object table
serialize(obj, heap, t) ==
    CASE obj.kind = "group" ->
            [kind |-> "group", uid |-> heap[obj.addr].uid, name |-> heap[obj.addr].name,
             project_id |-> heap[obj.addr].project_id, trials |-> heap[obj.addr].trials]
      [] obj.kind = "trial_ref" ->
            [kind |-> "trial", uid |-> t.uid, project_id |-> t.project_id,
             group_id |-> t.group_id]
      [] OTHER -> obj

\* Storage.commit(file_name_override): the content written to the file
commit(ds, heap, t) ==
    [project_names |-> ds.project_names,
     objects |-> [u \in DOMAIN ds.objects |-> serialize(ds.objects[u], heap, t)]]

\* Storage.commit(file_name_override): the file written, the storage's own by default
commit_target(ds, file_name_override) ==
    IF file_name_override = None THEN ds.loc ELSE file_name_override.loc

\* ---------------------------------------------------------------- TrackClient.set_store

\* lines 53-54: the name defaults to the current project's
store_name(proj, name) ==
    IF name = NoName /\ proj # None THEN proj.name ELSE name

\* lines 56-57: the placeholder is substituted when a name is known
store_location(proj, store, name) ==
    IF store_name(proj, name) # NoName
    THEN replace(store, store_name(proj, name))
    ELSE store

\* line 59, mutated: the storage is loaded again on every call
always_load(ds, force) == TRUE

\* line 59: if self.data_store is None or force
needs_load(ds, force) == ds = None \/ force

\* lines 51-61: the data store and the heap after set_store(store, name, force)
set_store(ds, heap, fs, proj, store, name, force, gen) ==
    IF needs_load(ds, force)
    THEN load_storage(fs, heap, store_location(proj, store, name), gen + 1)
         @@ [loaded |-> TRUE]
    ELSE [data_store |-> ds, groups |-> heap, loaded |-> FALSE]

\* ---------------------------------------------------------------- TrackClient.set_project

\* lines 78-85, mutated: the name index is not consulted
never_find_project(ds, p, name) == [err |-> "ok", project |-> p]

\* lines 78-85, mutated: a uid without an object is taken as "no such project"
find_project_unchecked(ds, p, name) ==
    IF name # NoName /\ names_get(ds.project_names, name) # NoUid
    THEN [err |-> "ok",
          project |-> objects_get(ds.objects, names_get(ds.project_names, name))]
    ELSE [err |-> "ok", project |-> p]

\* lines 78-85: look the name up in the index, then the uid in the object table
find_project(ds, p, name) ==
    IF name # NoName /\ names_get(ds.project_names, name) # NoUid
    THEN IF objects_get(ds.objects, names_get(ds.project_names, name)) = None
         THEN [err |-> "AssertionError", project |-> None]
         ELSE [err |-> "ok",
               project |-> objects_get(ds.objects, names_get(ds.project_names, name))]
    ELSE [err |-> "ok", project |-> p]

\* lines 87-91, mutated: a project is created without a name
create_unnamed_project(ds, p, name, uid) ==
    IF p = None
    THEN insert_project(ds, Project(name), uid) @@ [err |-> "ok"]
    ELSE [err |-> "ok", project |-> p, data_store |-> ds, nextUid |-> uid]

\* lines 87-91: without a project so far, one is created from the name and inserted
create_project(ds, p, name, uid) ==
    IF p = None
    THEN IF name = NoName
         THEN [err |-> "AssertionError", project |-> None, data_store |-> ds,
               nextUid |-> uid]
         ELSE insert_project(ds, Project(name), uid) @@ [err |-> "ok"]
    ELSE [err |-> "ok", project |-> p, data_store |-> ds, nextUid |-> uid]

\* lines 74-98
set_project(p, name) ==
    LET st == set_store(data_store, groups, files, project, storage_protocol, name,
                        FALSE, loads)
        fd == find_project(st.data_store, p, name)
        cr == create_project(st.data_store, fd.project, name, nextUid)
        tr == insert_trial(cr.data_store, [trial EXCEPT !.project_id = cr.project.uid],
                           cr.nextUid)
        err == IF fd.err # "ok" THEN fd.err ELSE cr.err
        kept == IF st.loaded THEN EmptyDict ELSE project_returned
    IN /\ ncalls < MaxCalls
       /\ ncalls' = ncalls + 1
       /\ groups' = st.groups
       /\ loads' = IF st.loaded THEN loads + 1 ELSE loads
       /\ IF err = "ok"
          THEN /\ data_store' = tr.data_store
               /\ trial' = tr.trial
               /\ project' = cr.project
               /\ nextUid' = tr.nextUid
               /\ project_returned' =
                      IF p = None
                      THEN dict_set(kept, name,
                                    Append(returned_get(kept, name), cr.project.uid))
                      ELSE kept
               /\ group_returned' =
                      IF st.loaded \/ cr.project # project THEN EmptyDict
                      ELSE group_returned
          ELSE /\ data_store' = st.data_store
               /\ project_returned' = kept
               /\ group_returned' = IF st.loaded THEN EmptyDict ELSE group_returned
               /\ UNCHANGED <<trial, project, nextUid>>
       /\ last' = [op |-> "set_project", arg |-> p, name |-> name, err |-> err,
                   ret |-> IF err = "ok" THEN cr.project ELSE None]
       /\ UNCHANGED <<storage_protocol, group, files>>

\* ---------------------------------------------------------------- TrackClient.set_group

\* lines 101-102, mutated: the call goes on without a project
no_project_check(proj) == FALSE

\* lines 101-102: if self.project is None: raise RuntimeError
project_missing(proj) == proj = None

\* line 106: self.data_store.objects[gid] raises KeyError for a gid not in the table
group_missing(ds, proj) ==
    \E gid \in proj.groups : objects_get(ds.objects, gid) = None

\* lines 105-108: the project's groups that carry the name
groups_named(ds, heap, proj, name) ==
    {ds.objects[gid].addr : gid \in {x \in proj.groups : heap[ds.objects[x].addr].name = name}}

\* the outcome of lines 101-108: which error, if any
group_lookup_error(ds, proj) ==
    IF project_missing(proj) THEN "RuntimeError"
    ELSE IF proj = None THEN "AttributeError"
    ELSE IF group_missing(ds, proj) THEN "KeyError"
    ELSE "ok"

\* lines 110-117 on the group at `addr`: project_id is set, the trial's uid appended
register_trial(heap, addr, proj, t) ==
    [heap EXCEPT ![addr] = [@ EXCEPT !.project_id = proj.uid,
                                     !.trials = Append(@, t.uid)]]

\* lines 110-119, with `found` the group of lines 105-108 (or the caller's, or None)
set_group_to(g, name, found) ==
    LET heap == IF found = None THEN Append(groups, TrialGroup(name)) ELSE groups
        addr == IF found = None THEN Len(groups) + 1 ELSE found.addr
    IN /\ groups' = register_trial(heap, addr, project, trial)
       /\ trial' = [trial EXCEPT !.group_id = heap[addr].uid]
       /\ group' = GroupRef(addr)
       /\ group_returned' =
              IF g = None
              THEN dict_set(group_returned, name,
                            Append(returned_get(group_returned, name), addr))
              ELSE group_returned
       /\ last' = [op |-> "set_group", arg |-> g, name |-> name, err |-> "ok",
                   ret |-> GroupRef(addr)]

\* lines 100-119
set_group(g, name) ==
    /\ ncalls < MaxCalls
    /\ ncalls' = ncalls + 1
    /\ IF group_lookup_error(data_store, project) # "ok"
       THEN /\ last' = [op |-> "set_group", arg |-> g, name |-> name,
                        err |-> group_lookup_error(data_store, project), ret |-> None]
            /\ UNCHANGED <<groups, trial, group, group_returned>>
       ELSE IF groups_named(data_store, groups, project, name) = {}
            THEN set_group_to(g, name, g)
            ELSE \E addr \in groups_named(data_store, groups, project, name) :
                     set_group_to(g, name, GroupRef(addr))
    /\ UNCHANGED <<storage_protocol, project, data_store, files, nextUid, loads,
                   project_returned>>

\* ---------------------------------------------------------------- set_store, save

\* lines 51-61, called on the client directly
call_set_store(store, name, force) ==
    LET st == set_store(data_store, groups, files, project, store, name, force, loads)
    IN /\ ncalls < MaxCalls
       /\ ncalls' = ncalls + 1
       /\ data_store' = st.data_store
       /\ groups' = st.groups
       /\ loads' = IF st.loaded THEN loads + 1 ELSE loads
       /\ project_returned' = IF st.loaded THEN EmptyDict ELSE project_returned
       /\ group_returned' = IF st.loaded THEN EmptyDict ELSE group_returned
       /\ last' = [op |-> "set_store", arg |-> [kind |-> "store", store |-> store,
                                                 force |-> force],
                   name |-> name, err |-> "ok", ret |-> Self]
       /\ UNCHANGED <<storage_protocol, project, group, trial, files, nextUid>>

\* lines 179-181: self.data_store.commit(file_name_override)
save(file_name_override) ==
    /\ ncalls < MaxCalls
    /\ ncalls' = ncalls + 1
    /\ IF data_store = None
       THEN /\ last' = [op |-> "save", arg |-> file_name_override, name |-> NoName,
                        err |-> "AttributeError", ret |-> None]
            /\ UNCHANGED files
       ELSE /\ files' = [files EXCEPT ![commit_target(data_store, file_name_override)] =
                                          commit(data_store, groups, trial)]
            /\ last' = [op |-> "save", arg |-> file_name_override, name |-> NoName,
                        err |-> "ok", ret |-> None]
    /\ UNCHANGED <<storage_protocol, project, group, trial, data_store, groups, nextUid,
                   loads, project_returned, group_returned>>

\* ---------------------------------------------------------------- TrackClient.__getattr__

Attr(owner, item) == [kind |-> "attr", owner |-> owner, item |-> item]

\* lines 146-153, mutated: the backend is asked before the logger
getattr_backend_first(item, in_logger, in_backend) ==
    IF in_backend THEN [err |-> "ok", ret |-> Attr("backend", item)]
    ELSE IF in_logger THEN [err |-> "ok", ret |-> Attr("logger", item)]
    ELSE [err |-> "AttributeError", ret |-> None]

\* lines 146-153: the logger's attribute, else the backend's, else AttributeError
getattr(item, in_logger, in_backend) ==
    IF in_logger THEN [err |-> "ok", ret |-> Attr("logger", item)]
    ELSE IF in_backend THEN [err |-> "ok", ret |-> Attr("backend", item)]
    ELSE [err |-> "AttributeError", ret |-> None]

Items == {"log_metrics"}

\* lines 137-153, for an item the client does not define; in_logger and in_backend
\* say whether hasattr finds the item on the logger and on its backend
call_getattr(item, in_logger, in_backend) ==
    /\ last' = [op |-> "getattr",
                arg |-> [kind |-> "item", item |-> item, in_logger |-> in_logger,
                         in_backend |-> in_backend],
                name |-> NoName,
                err |-> getattr(item, in_logger, in_backend).err,
                ret |-> getattr(item, in_logger, in_backend).ret]
    /\ UNCHANGED <<storage_protocol, project, group, trial, data_store, groups, files,
                   nextUid, loads, ncalls, project_returned, group_returned>>

\* ---------------------------------------------------------------- the client

\* the files before the client runs: nothing, or what an earlier run of project "a"
\* left at the location the protocol gives that project
InitialFiles(store) ==
    {[loc \in AllLocations |-> IF loc = replace(store, "a") THEN c ELSE EmptyContent] :
        c \in Contents}

\* lines 26-49: the client after construction
Init ==
    /\ storage_protocol \in Protocols
    /\ project = None
    /\ group = None
    /\ trial = Trial
    /\ data_store = None
    /\ groups = <<>>
    /\ files \in InitialFiles(storage_protocol)
    /\ nextUid = FirstFreeUid
    /\ loads = 0
    /\ ncalls = 0
    /\ last = [op |-> "init", arg |-> None, name |-> NoName, err |-> "ok", ret |-> None]
    /\ project_returned = EmptyDict
    /\ group_returned = EmptyDict

\* the Project objects a caller can pass: none, or one it built itself
ProjectArgs == {None} \cup {Project(n) : n \in Names}

\* the file_name_override a caller can pass: none, or a file of its own
OverrideArgs == {None, FileArg(OtherFile)}

\* the TrialGroup objects a caller can pass: the ones it can hold a reference to
GroupArgs == {None} \cup {GroupRef(a) : a \in DOMAIN groups}

Next ==
    \/ \E p \in ProjectArgs, name \in OptNames : set_project(p, name)
    \/ \E g \in GroupArgs, name \in OptNames : set_group(g, name)
    \/ \E store \in Stores, name \in OptNames, force \in BOOLEAN :
           call_set_store(store, name, force)
    \/ \E file_name_override \in OverrideArgs : save(file_name_override)
    \/ \E item \in Items, in_logger \in BOOLEAN, in_backend \in BOOLEAN :
           call_getattr(item, in_logger, in_backend)

Spec == Init /\ [][Next]_vars

\* ---------------------------------------------------------------- properties

Range(f) == {f[i] : i \in DOMAIN f}

IsPrefix(s, t) == Len(s) <= Len(t) /\ \A i \in DOMAIN s : s[i] = t[i]

AllEqual(s) == \A i, j \in DOMAIN s : s[i] = s[j]

\* the uids under which the storage's object table holds a Project named n
projects_named(ds, n) ==
    {u \in DOMAIN ds.objects : ds.objects[u].kind = "project" /\ ds.objects[u].name = n}

\* C1: set_project(name=n) called again on the same storage returns a Project with
\* the same uid, and the storage holds exactly one Project named n, the one the
\* name index gives for n.
C1_GetOrCreateIdempotent ==
    \A n \in DOMAIN project_returned :
        /\ AllEqual(project_returned[n])
        /\ projects_named(data_store, n) = {names_get(data_store.project_names, n)}
        /\ Range(project_returned[n]) = projects_named(data_store, n)

C1_Witness ==
    \E n \in DOMAIN project_returned : Len(project_returned[n]) >= 2

\* C2: within one Project, set_group(name=g) called again yields the same
\* TrialGroup, and no call removes or reorders an entry of a group's trial list.
C2_GroupUnique ==
    [][/\ \A n \in DOMAIN group_returned' : AllEqual(group_returned'[n])
       /\ \A a \in DOMAIN groups : IsPrefix(groups[a].trials, groups'[a].trials)]_vars

\* C3: without a Project, set_group raises RuntimeError whatever its arguments,
\* and self.group, the trial and every group's trial list stay as they were.
C3_GroupNeedsProject ==
    [][(last'.op = "set_group" /\ project = None) =>
           /\ last'.err = "RuntimeError"
           /\ group' = group
           /\ trial' = trial
           /\ groups' = groups
           /\ project' = None]_vars

C3_Witness ==
    /\ last.op = "set_group"
    /\ last.err = "RuntimeError"
    /\ last.arg # None
    /\ project = None

\* the name index and the table's keys of the storage a set_project call consults:
\* the loaded one, or the one set_store loads from the file
consulted(name) ==
    IF data_store = None
    THEN files[store_location(project, storage_protocol, name)]
    ELSE data_store

\* the failed call left the storage as set_store found or loaded it
storage_untouched(name) ==
    /\ data_store # None => data_store' = data_store
    /\ data_store'.project_names = consulted(name).project_names
    /\ DOMAIN data_store'.objects = DOMAIN consulted(name).objects

\* C4: set_project with neither a name nor a Project fails; it creates no Project,
\* inserts nothing into the name index or the object table, and leaves the current
\* project and the trial as they were.
C4_ProjectNeedsName ==
    [][(last'.op = "set_project" /\ last'.arg = None /\ last'.name = NoName) =>
           /\ last'.err = "AssertionError"
           /\ nextUid' = nextUid
           /\ storage_untouched(NoName)
           /\ project' = project
           /\ trial' = trial]_vars

C4_Witness ==
    /\ last.op = "set_project"
    /\ last.arg = None
    /\ last.name = NoName
    /\ last.err = "AssertionError"
    /\ project # None

\* C5: the trial belongs to one Project and to at most one TrialGroup: its uid is
\* in the trial list of at most one group, the one trial.group_id names.
C5_TrialMembership ==
    LET holders == {a \in DOMAIN groups : trial.uid \in Range(groups[a].trials)}
    IN /\ project # None => trial.project_id = project.uid
       /\ Cardinality(holders) <= 1
       /\ \A a \in holders : group = GroupRef(a) /\ trial.group_id = groups[a].uid

\* the groups set_group has returned: the ones it appended the trial's uid to
returned_groups == {a \in DOMAIN groups : trial.uid \in Range(groups[a].trials)}

\* C6: after save() to the storage's own file, the reloaded storage holds the Project, the Trial and every
\* TrialGroup set_group returned, under their uids and with their cross-references.
C6_SaveRoundTrip ==
    (last.op = "save" /\ last.arg = None /\ last.err = "ok") =>
        LET re == load_storage(files, <<>>, data_store.loc, 0)
            obj(u) == serialize(objects_get(re.data_store.objects, u), re.groups, trial)
        IN /\ project # None => obj(project.uid) = project
           /\ trial.uid # NoUid => obj(trial.uid) = serialize(TrialRef, groups, trial)
           /\ \A a \in returned_groups :
                  obj(groups[a].uid) = serialize(GroupRef(a), groups, trial)

\* C7: an attribute the client does not define is the logger's when the logger has
\* it, else the backend's when the backend has it, else an AttributeError; the
\* lookup changes nothing on the client.
C7_DelegationOrder ==
    [][last'.op = "getattr" =>
           /\ last'.arg.in_logger =>
                  last'.err = "ok" /\ last'.ret = Attr("logger", last'.arg.item)
           /\ (~last'.arg.in_logger /\ last'.arg.in_backend) =>
                  last'.err = "ok" /\ last'.ret = Attr("backend", last'.arg.item)
           /\ (~last'.arg.in_logger /\ ~last'.arg.in_backend) =>
                  last'.err = "AttributeError"
           /\ UNCHANGED <<storage_protocol, project, group, trial, data_store, groups,
                          files>>]_vars

C7_Witness ==
    /\ last.op = "getattr"
    /\ last.arg.in_logger
    /\ last.arg.in_backend
    /\ last.ret = Attr("logger", last.arg.item)
    /\ project # None

\* the name index gives a uid for n that the object table does not hold
dangling(c, n) ==
    /\ names_get(c.project_names, n) # NoUid
    /\ names_get(c.project_names, n) \notin DOMAIN c.objects

\* C8: set_project(name=n) on a storage whose index names a uid for n that the
\* object table lacks fails with an AssertionError; it creates no second Project
\* and leaves the index, the table, the current project and the trial alone.
C8_DanglingIndexFails ==
    [][(last'.op = "set_project" /\ last'.name # NoName
            /\ dangling(consulted(last'.name), last'.name)) =>
           /\ last'.err = "AssertionError"
           /\ nextUid' = nextUid
           /\ storage_untouched(last'.name)
           /\ project' = project
           /\ trial' = trial]_vars

C8_Witness ==
    /\ last.op = "set_project"
    /\ last.name # NoName
    /\ last.err = "AssertionError"
    /\ dangling(data_store, last.name)

\* C9: after a successful set_project, trial.project_id is the uid of a Project
\* held in the object table and named in the index under the project's name.
C9_ProjectRegistered ==
    (last.op = "set_project" /\ last.err = "ok") =>
        /\ trial.project_id = project.uid
        /\ objects_get(data_store.objects, trial.project_id) = project
        /\ names_get(data_store.project_names, project.name) = trial.project_id

\* C10: the data store is replaced only when none is loaded or force is true; a
\* set_project call keeps a loaded store, whatever name it passes, and the first
\* one loads the location its own name gives.
C10_StoreLoadedOnce ==
    [][/\ (data_store # None /\ data_store'.gen # data_store.gen) =>
              last'.op = "set_store" /\ last'.arg.force
       /\ (last'.op = "set_project" /\ data_store # None) =>
              data_store'.gen = data_store.gen /\ data_store'.loc = data_store.loc
       /\ (last'.op = "set_project" /\ data_store = None) =>
              data_store'.loc = IF last'.name = NoName THEN storage_protocol
                                ELSE replace(storage_protocol, last'.name)]_vars

C10_Witness ==
    /\ last.op = "set_project"
    /\ last.err = "ok"
    /\ last.name # NoName
    /\ loads = 1
    /\ data_store.loc # replace(storage_protocol, last.name)
    /\ \E n \in Names : n # last.name /\ data_store.loc = replace(storage_protocol, n)

====
